---- MODULE Spec2Model ----
(***************************************************************************)
(* A model of tonteki.py: the seven-card hand evaluator, the exhaustive    *)
(* equity engine (calculate_equity) and its fork-join decomposition        *)
(* (calculate_equity_in_parallel).                                         *)
(*                                                                         *)
(* Representation.  A 52-bit pattern is modelled as the set of its ON bit  *)
(* positions (a subset of 0..51): `a | b' is union, `(1 << i) & mask == 0' *)
(* is `i \notin mask', and the sum of distinct single-bit values is the    *)
(* set of their positions.  A card token is the pair <<rank, suit glyph>>; *)
(* a card string is the sequence of its whitespace-separated tokens.  The  *)
(* float scores are modelled exactly, as integer multiples of 1/Unit.      *)
(* Python lists are 0-based; the sequences here are 1-based.               *)
(***************************************************************************)
EXTENDS Integers, Sequences, FiniteSets, TLC

\* ------------------------------------------------------------------------
\* Bounds of the model
\* ------------------------------------------------------------------------

\* the largest worker count (multiprocessing.cpu_count()) explored
MaxWorkers == 3

\* how many cards of LiveOrder the large mucked lists leave in the deck
Unmucked == 12

\* how many cards of EvalOrder the patterns given to evaluate are drawn from
EvalCards == 12

\* the largest number of completed boards of an explored call
MaxBoards == 40

\* ------------------------------------------------------------------------
\* Program constants
\* ------------------------------------------------------------------------

DeckSize == 52

SuitSize == 13

NoFlush == 9999

WorstRank == 7462

BoardSize == 5

\* ------------------------------------------------------------------------
\* Small helpers
\* ------------------------------------------------------------------------

Max(S) == CHOOSE x \in S : \A y \in S : y <= x

Min(S) == CHOOSE x \in S : \A y \in S : x <= y

Min2(a, b) == IF a < b THEN a ELSE b

RECURSIVE Binomial(_, _)
Binomial(n, k) ==
    IF k < 0 \/ k > n THEN 0
    ELSE IF k = 0 THEN 1
    ELSE (Binomial(n - 1, k - 1) * n) \div k

RECURSIVE SumSeq(_)
SumSeq(s) == IF s = <<>> THEN 0 ELSE Head(s) + SumSeq(Tail(s))

RECURSIVE Concat(_)
Concat(ss) == IF ss = <<>> THEN <<>> ELSE Head(ss) \o Concat(Tail(ss))

\* the elements of a set of integers, largest first
RECURSIVE Desc(_)
Desc(S) == IF S = {} THEN <<>> ELSE <<Max(S)>> \o Desc(S \ {Max(S)})

\* the elements of a set of integers, smallest first
RECURSIVE Asc(_)
Asc(S) == IF S = {} THEN <<>> ELSE <<Min(S)>> \o Asc(S \ {Min(S)})

Take(s, n) == SubSeq(s, 1, Min2(n, Len(s)))

\* ------------------------------------------------------------------------
\* The two lookup tables (modules suited and offsuit, not part of the
\* sources at hand): total functions with the contract the evaluator
\* relies on.  A suit slice is the set of its rank offsets 0..12
\* (0 = deuce, 12 = ace).
\* ------------------------------------------------------------------------

\* 5^j for j = 0..12: one base-5 digit per rank holds a count 0..4
Pow5 == <<1, 5, 25, 125, 625, 3125, 15625, 78125, 390625, 1953125,
          9765625, 48828125, 244140625>>

\* how many cards of rank j the octet key encodes
Cnt(key, j) == (key \div Pow5[j + 1]) % 5

RanksWith(key, c) == {j \in 0..(SuitSize - 1) : Cnt(key, j) >= c}

\* the rank r renumbered within the ranks left once those of X are removed
Below(r, X) == r - Cardinality({x \in X : x < r})

\* the top card of the best straight among the ranks R (3 for the wheel
\* A-2-3-4-5), or -1
StraightHigh(R) ==
    LET highs == {h \in 4..12 : \A d \in 0..4 : (h - d) \in R}
                 \cup (IF {12, 0, 1, 2, 3} \subseteq R THEN {3} ELSE {})
    IN  IF highs = {} THEN -1 ELSE Max(highs)

\* combinatorial number of the ranks d[1] > d[2] > ... > d[k]: larger for
\* the stronger kickers, compared highest card first
RECURSIVE CombNumber(_)
CombNumber(d) ==
    IF d = <<>> THEN 0
    ELSE Binomial(Head(d), Len(d)) + CombNumber(Tail(d))

StraightNumbers ==
    {CombNumber(<<h, h - 1, h - 2, h - 3, h - 4>>) : h \in 4..12}
    \cup {CombNumber(<<12, 3, 2, 1, 0>>)}

\* position (0 = best) of five distinct non-straight ranks among the 1277
\* such combinations
HighIndex(d) ==
    (Binomial(SuitSize, 5) - 1 - CombNumber(d))
    - Cardinality({s \in StraightNumbers : s > CombNumber(d)})

\* offsuit.TABLE[octet]: the strength of the best hand that ignores suits
OctetTable(key) ==
    LET quads == RanksWith(key, 4)
        trips == RanksWith(key, 3)
        pairs == RanksWith(key, 2)
        all   == RanksWith(key, 1)
        sh    == StraightHigh(all)
    IN  IF quads # {}
        THEN LET q == Max(quads)
                 k == Max(all \ {q})
             IN  11 + (12 - q) * 12 + (11 - Below(k, {q}))
        ELSE IF trips # {} /\ pairs \ {Max(trips)} # {}
        THEN LET t == Max(trips)
                 p == Max(pairs \ {t})
             IN  167 + (12 - t) * 12 + (11 - Below(p, {t}))
        ELSE IF sh >= 0
        THEN 1600 + (12 - sh)
        ELSE IF trips # {}
        THEN LET t == Max(trips)
                 k == Take(Desc(all \ {t}), 2)
             IN  1610 + (12 - t) * 66
                 + (65 - CombNumber([i \in 1..2 |-> Below(k[i], {t})]))
        ELSE IF Cardinality(pairs) >= 2
        THEN LET p == Take(Desc(pairs), 2)
                 k == Max(all \ {p[1], p[2]})
             IN  2468 + (77 - CombNumber(p)) * 11
                 + (10 - Below(k, {p[1], p[2]}))
        ELSE IF pairs # {}
        THEN LET p == Max(pairs)
                 k == Take(Desc(all \ {p}), 3)
             IN  3326 + (12 - p) * 220
                 + (219 - CombNumber([i \in 1..3 |-> Below(k[i], {p})]))
        ELSE 6186 + HighIndex(Take(Desc(all), 5))

\* suited.TABLE[slice]: <<octet contribution, flush or straight-flush value>>
SuitTable(slice) ==
    LET octet == SumSeq([i \in 1..Cardinality(slice) |-> Pow5[Asc(slice)[i] + 1]])
        sh    == StraightHigh(slice)
        flush == IF Cardinality(slice) < 5 THEN NoFlush
                 ELSE IF sh >= 0 THEN 1 + (12 - sh)
                 ELSE 323 + HighIndex(Take(Desc(slice), 5))
    IN  <<octet, flush>>

\* ------------------------------------------------------------------------
\* evaluate
\* ------------------------------------------------------------------------

\* (pattern >> i) & 0x1fff
Slice(pattern, i) == {b - i : b \in {c \in pattern : c >= i /\ c < i + SuitSize}}

\* the loop body with `value = v' for `value = min(v, value)'
EvalBody_LastSuitWins(pattern, i, acc) ==
    LET ov == SuitTable(Slice(pattern, i))
    IN  <<acc[1] + ov[1], ov[2]>>

\* one turn of the loop over the suits: acc = <<octet, value>>
EvalBody(pattern, i, acc) ==
    LET ov == SuitTable(Slice(pattern, i))
    IN  <<acc[1] + ov[1], Min2(ov[2], acc[2])>>

RECURSIVE EvalLoop(_, _, _)
EvalLoop(pattern, i, acc) ==
    IF i >= DeckSize THEN acc
    ELSE EvalLoop(pattern, i + SuitSize, EvalBody(pattern, i, acc))

EvalResult(acc) == Min2(OctetTable(acc[1]), acc[2])

evaluate(pattern) == EvalResult(EvalLoop(pattern, 0, <<0, NoFlush>>))

\* ------------------------------------------------------------------------
\* Card notation and bit positions
\* ------------------------------------------------------------------------

\* the first suit alphabet (black spade, white heart, white diamond, black
\* club) and the second one (white spade, black heart, black diamond,
\* white club)
Suits1 == <<"spade", "heart", "diamond", "club">>

Suits2 == <<"spade2", "heart2", "diamond2", "club2">>

\* codes[rank + suit] = i * 13 + j for every suit i and rank j
_define_bit_positions(codes, suits) ==
    LET ranks == <<"2", "3", "4", "5", "6", "7", "8", "9", "T", "J", "Q", "K", "A">>
        i(t)  == CHOOSE n \in 1..Len(suits) : suits[n] = t[2]
        j(t)  == CHOOSE n \in 1..Len(ranks) : ranks[n] = t[1]
    IN  [t \in (DOMAIN codes)
                  \cup {<<ranks[n], suits[m]>> : m \in 1..Len(suits), n \in 1..Len(ranks)} |->
            IF \E n \in 1..Len(suits) : suits[n] = t[2]
            THEN (i(t) - 1) * Len(ranks) + (j(t) - 1)
            ELSE codes[t]]

_POS == _define_bit_positions(_define_bit_positions(<<>>, Suits1), Suits2)

\* a str argument (the tokens of its split()) and a list-of-str argument
StrArg(cards) == [isList |-> FALSE, val |-> cards]

ListArg(hands) == [isList |-> TRUE, val |-> hands]

\* str.join(' ', arg).split() for a list, arg.split() for a str
Words(arg) == IF arg.isList THEN Concat(arg.val) ELSE arg.val

\* some token of the arguments is not a key of _POS: the lookup raises
KeyErrorIn(args) ==
    LET known == DOMAIN _POS
    IN  \E a \in 1..Len(args) :
            LET cards == Words(args[a])
            IN  \E c \in 1..Len(cards) : cards[c] \notin known

RECURSIVE OrCards(_, _)
OrCards(pattern, cards) ==
    IF cards = <<>> THEN pattern
    ELSE OrCards(pattern \cup {_POS[Head(cards)]}, Tail(cards))

RECURSIVE OrArgs(_, _)
OrArgs(pattern, args) ==
    IF args = <<>> THEN pattern
    ELSE OrArgs(OrCards(pattern, Words(Head(args))), Tail(args))

_make_bit_pattern(args) == OrArgs({}, args)

\* ------------------------------------------------------------------------
\* Enumeration of the completed boards
\* ------------------------------------------------------------------------

\* itertools.combinations(pool, r), r >= 0: the r-length subsequences of
\* pool in lexicographic order of their positions
RECURSIVE combinations(_, _)
combinations(pool, r) ==
    IF r = 0 THEN << <<>> >>
    ELSE IF Len(pool) < r THEN <<>>
    ELSE LET with == combinations(Tail(pool), r - 1)
         IN  [i \in 1..Len(with) |-> <<Head(pool)>> \o with[i]]
             \o combinations(Tail(pool), r)

\* sum(x) of distinct single-bit values: the pattern with those bits ON
SumBits(x) == {x[i] : i \in 1..Len(x)}

\* the enumeration without an iteration when no card is left to deal
_all_possibilities_NoneForZero(mask, r) ==
    LET pool   == SelectSeq([i \in 1..DeckSize |-> i - 1], LAMBDA i : i \notin mask)
        combos == IF r = 0 THEN <<>> ELSE combinations(pool, r)
    IN  [c \in 1..Len(combos) |-> SumBits(combos[c])]

\* the enumeration over range(51): the last card of the deck is never dealt
_all_possibilities_ShortDeck(mask, r) ==
    LET pool   == SelectSeq([i \in 1..(DeckSize - 1) |-> i - 1], LAMBDA i : i \notin mask)
        combos == combinations(pool, r)
    IN  [c \in 1..Len(combos) |-> SumBits(combos[c])]

_all_possibilities(mask, r) ==
    LET pool   == SelectSeq([i \in 1..DeckSize |-> i - 1], LAMBDA i : i \notin mask)
        combos == combinations(pool, r)
    IN  [c \in 1..Len(combos) |-> SumBits(combos[c])]

\* ------------------------------------------------------------------------
\* Scoring
\* ------------------------------------------------------------------------

RECURSIVE JudgeLoop(_, _, _, _)
JudgeLoop(ranks, i, best, winners) ==
    IF i > Len(ranks) THEN winners
    ELSE IF ranks[i] < best THEN JudgeLoop(ranks, i + 1, ranks[i], <<i>>)
    ELSE IF ranks[i] = best THEN JudgeLoop(ranks, i + 1, best, Append(winners, i))
    ELSE JudgeLoop(ranks, i + 1, best, winners)

\* the loop without its elif branch: a tie keeps the first holding only
RECURSIVE JudgeLoopStrict(_, _, _, _)
JudgeLoopStrict(ranks, i, best, winners) ==
    IF i > Len(ranks) THEN winners
    ELSE IF ranks[i] < best THEN JudgeLoopStrict(ranks, i + 1, ranks[i], <<i>>)
    ELSE JudgeLoopStrict(ranks, i + 1, best, winners)

_judge_winners_TieToFirst(ranks) == JudgeLoopStrict(ranks, 1, NoFlush, <<>>)

_judge_winners(ranks) == JudgeLoop(ranks, 1, NoFlush, <<>>)

\* ------------------------------------------------------------------------
\* Inputs explored
\* ------------------------------------------------------------------------

S(rank) == <<rank, "spade">>

H(rank) == <<rank, "heart">>

D(rank) == <<rank, "diamond">>

C(rank) == <<rank, "club">>

\* the cards the large mucked lists may leave in the deck, in this order
LiveOrder ==
    <<S("A"), H("A"), S("K"), H("K"), H("Q"), H("J"), S("Q"), S("J"), S("T"),
      C("A"), C("K"), S("9"), S("8"), D("Q"), D("A")>>

HeadsUp == << <<S("A"), H("A")>>, <<S("K"), H("K")>> >>

\* the same two holdings written in the second suit alphabet
HeadsUpAlias ==
    << <<<<"A", "spade2">>, <<"A", "heart2">>>>, <<<<"K", "spade2">>, <<"K", "heart2">>>> >>

\* two holdings of the same ranks: they split unless a flush decides
Chop == << <<S("A"), H("K")>>, <<H("A"), S("K")>> >>

\* the two holdings of Chop and a third one that loses to them on A-K-Q-J-9
ChopThree == << <<S("A"), H("K")>>, <<H("A"), S("K")>>, <<H("Q"), H("J")>> >>

ThreeWay == << <<S("A"), H("A")>>, <<S("K"), H("K")>>, <<H("Q"), H("J")>> >>

Alone == << <<S("A"), H("A")>> >>

SharedCard == << <<S("A"), H("A")>>, <<S("A"), H("K")>> >>

BadToken == << <<S("A"), H("A")>>, <<S("K"), <<"1", "heart">>>> >>

ActiveChoices ==
    {HeadsUp, HeadsUpAlias, Chop, ChopThree, ThreeWay, Alone, SharedCard, BadToken, <<>>}

Flop == <<S("Q"), S("J"), S("T")>>

Turn == <<S("Q"), S("J"), S("T"), C("A")>>

\* written with both suit alphabets
River == <<S("Q"), <<"J", "spade2">>, S("T"), <<"A", "club2">>, C("K")>>

\* a board on which the king of spades makes a straight flush
River2 == <<S("Q"), S("J"), S("T"), S("9"), C("A")>>

BoardChoices ==
    {<<>>, Flop, Turn, River, River2,
     <<S("Q")>>,
     <<S("Q"), S("J"), S("T"), C("A"), C("K"), S("9")>>,
     <<S("A"), S("J"), S("T"), C("A"), C("K")>>}

\* every card of the deck but those of keep, two to a hand, first alphabet
MuckAllBut(keep) ==
    LET ranks == <<"2", "3", "4", "5", "6", "7", "8", "9", "T", "J", "Q", "K", "A">>
        card(b) == <<ranks[(b % SuitSize) + 1], Suits1[(b \div SuitSize) + 1]>>
        kept == {_POS[keep[i]] : i \in 1..Len(keep)}
        rest == SelectSeq([i \in 1..DeckSize |-> i - 1], LAMBDA b : b \notin kept)
    IN  [h \in 1..((Len(rest) + 1) \div 2) |->
            IF 2 * h <= Len(rest) THEN <<card(rest[2 * h - 1]), card(rest[2 * h])>>
            ELSE <<card(rest[2 * h - 1])>>]

MuckedChoices ==
    {MuckAllBut(Take(LiveOrder, Unmucked)),
     MuckAllBut(Take(LiveOrder, Len(Concat(ThreeWay)) + Len(Flop) + 1))}

MaxHands == Max({Len(a) : a \in ActiveChoices})

RECURSIVE Factorial(_)
Factorial(n) == IF n <= 1 THEN 1 ELSE n * Factorial(n - 1)

\* scores are integer multiples of 1/Unit; Unit is divisible by every
\* possible number of winners, so 1 / len(winners) is Unit \div Len(winners)
Unit == Factorial(MaxHands)

RECURSIVE Gcd(_, _)
Gcd(a, b) == IF b = 0 THEN a ELSE Gcd(b, a % b)

\* the value num / den (den > 0) in lowest terms
Frac(num, den) == <<num \div Gcd(num, den), den \div Gcd(num, den)>>

\* ------------------------------------------------------------------------
\* _func, _chunk and the two entry points
\* ------------------------------------------------------------------------

Ranks(present_patterns, future) ==
    [i \in 1..Len(present_patterns) |-> evaluate(present_patterns[i] \cup future)]

\* for i in winners: sums[i] += 1 / len(winners)
RECURSIVE CreditLoop(_, _, _)
CreditLoop(sums_, todo, share) ==
    IF todo = <<>> THEN sums_
    ELSE CreditLoop([sums_ EXCEPT ![Head(todo)] = @ + share], Tail(todo), share)

\* a whole point to every winner: `sums[i] += 1'
Credit_WholePointEach(sums_, winners_) == CreditLoop(sums_, winners_, Unit)

Credit(sums_, winners_) ==
    IF winners_ = <<>> THEN sums_
    ELSE CreditLoop(sums_, winners_, Unit \div Len(winners_))

FuncBody(present_patterns, future, sums_) ==
    Credit(sums_, _judge_winners(Ranks(present_patterns, future)))

RECURSIVE FuncLoop(_, _, _)
FuncLoop(present_patterns, futures, sums_) ==
    IF futures = <<>> THEN sums_
    ELSE FuncLoop(present_patterns, Tail(futures),
                  FuncBody(present_patterns, Head(futures), sums_))

Zeros(n) == [i \in 1..n |-> 0]

_func(present_patterns, futures) ==
    FuncLoop(present_patterns, futures, Zeros(Len(present_patterns)))

RECURSIVE ChunkLoop(_, _, _, _)
ChunkLoop(list_, d, i, s) ==
    IF i >= d THEN <<>>
    ELSE LET e == ((i + 1) * Len(list_)) \div d
         IN  <<SubSeq(list_, s + 1, e)>> \o ChunkLoop(list_, d, i + 1, e)

\* chunks of the fixed size n // d: `e = (i + 1) * (n // d)'
RECURSIVE ChunkLoopFloor(_, _, _, _)
ChunkLoopFloor(list_, d, i, s) ==
    IF i >= d THEN <<>>
    ELSE LET e == (i + 1) * (Len(list_) \div d)
         IN  <<SubSeq(list_, s + 1, e)>> \o ChunkLoopFloor(list_, d, i + 1, e)

_chunk_FixedSize(list_, d) == ChunkLoopFloor(list_, d, 0, 0)

_chunk(list_, d) == ChunkLoop(list_, d, 0, 0)

\* reduce(lambda a, b: [a[i] + b[i] for i in range(n)], results, [0] * n)
RECURSIVE ReduceLoop(_, _, _)
ReduceLoop(acc, rest, n) ==
    IF rest = <<>> THEN acc
    ELSE ReduceLoop([i \in 1..n |-> acc[i] + Head(rest)[i]], Tail(rest), n)

\* the reduction started from results[0] and run over all of results
ReduceSums_FirstTwice(results_, n) == ReduceLoop(Head(results_), results_, n)

ReduceSums(results_, n) == ReduceLoop(Zeros(n), results_, n)

\* the holdings encoded without the board
PresentPatterns_NoBoard(active, board_) ==
    [h \in 1..Len(active) |-> _make_bit_pattern(<<StrArg(active[h])>>)]

PresentPatterns(active, board_) ==
    [h \in 1..Len(active) |-> _make_bit_pattern(<<StrArg(active[h]), StrArg(board_)>>)]

\* the mask without the mucked hands
MaskPattern_NoMucked(active, mucked, board_) ==
    _make_bit_pattern(<<ListArg(active), StrArg(board_)>>)

MaskPattern(active, mucked, board_) ==
    _make_bit_pattern(<<ListArg(active), ListArg(mucked), StrArg(board_)>>)

RemainingToDeal(board_) == BoardSize - Len(board_)

\* [sum / len(future_patterns) for sum in sums], len(future_patterns) > 0
Normalise(sums_, total) == [i \in 1..Len(sums_) |-> Frac(sums_[i], Unit * total)]

\* ------------------------------------------------------------------------
\* The state machine: one call of calculate_equity followed by one call of
\* calculate_equity_in_parallel on the same arguments, and, separately,
\* the loop of evaluate on one seven-card pattern.
\* ------------------------------------------------------------------------

VARIABLES
    active_hands,      \* argument: the list of active hands
    mucked_hands,      \* argument: the list of mucked hands
    board,             \* argument: the board
    cpu_count,         \* multiprocessing.cpu_count()
    pc,                \* position in the two calls
    present_patterns,  \* local of the running call
    mask_pattern,      \* local of the running call
    future_patterns,   \* local of the running call
    done_boards,       \* _func of the sequential call: boards scored so far
    sums,              \* _func of the sequential call: the accumulators
    ranks,             \* _func of the sequential call: ranks of the last board
    winners,           \* _func of the sequential call: winners of the last board
    seq_outcome,       \* "none", "returned" or the exception raised
    seq_result,        \* the list calculate_equity returned
    args,              \* the chunks handed to the pool
    results,           \* the partial accumulators, in the order of args
    finished,          \* the workers that have returned
    par_outcome,       \* "none", "returned" or the exception raised
    par_result,        \* the list calculate_equity_in_parallel returned
    ev_pattern,        \* evaluate: its argument
    ev_i,              \* evaluate: the loop variable i
    ev_acc,            \* evaluate: <<octet, value>>
    ev_res             \* evaluate: the value returned, 0 before the return

engine_vars ==
    <<active_hands, mucked_hands, board, cpu_count, pc, present_patterns,
      mask_pattern, future_patterns, done_boards, sums, ranks, winners,
      seq_outcome, seq_result, args, results, finished, par_outcome, par_result>>

eval_vars == <<ev_pattern, ev_i, ev_acc, ev_res>>

vars == <<engine_vars, eval_vars>>

\* the ranks an evaluation outside the evaluator's contract (a pattern
\* without exactly seven bits) may produce when the lookup does not raise
JunkRanks(n) == [1..n -> {1, WorstRank, NoFlush + 1}]

\* the accumulators a worker may return for m boards scored on such ranks
RECURSIVE JunkSums(_, _)
JunkSums(n, m) ==
    IF m = 0 THEN {Zeros(n)}
    ELSE {Credit(s, _judge_winners(r)) : s \in JunkSums(n, m - 1), r \in JunkRanks(n)}

SevenCards(present, future) ==
    \A i \in 1..Len(present) : Cardinality(present[i] \cup future) = 7

EngineIdle ==
    /\ active_hands = <<>> /\ mucked_hands = <<>> /\ board = <<>>
    /\ cpu_count = 1 /\ pc = "idle"
    /\ present_patterns = <<>> /\ mask_pattern = {} /\ future_patterns = <<>>
    /\ done_boards = 0 /\ sums = <<>> /\ ranks = <<>> /\ winners = <<>>
    /\ seq_outcome = "none" /\ seq_result = <<>>
    /\ args = <<>> /\ results = <<>> /\ finished = {}
    /\ par_outcome = "none" /\ par_result = <<>>

EvalIdle ==
    /\ ev_pattern = {} /\ ev_i = 0 /\ ev_acc = <<0, NoFlush>> /\ ev_res = 0

\* the number of completed boards the call enumerates, 0 when it raises
\* before the enumeration
EnumerationSize(active, mucked, board_) ==
    IF KeyErrorIn(<<ListArg(active), ListArg(mucked), StrArg(board_)>>) THEN 0
    ELSE Binomial(DeckSize - Cardinality(MaskPattern(active, mucked, board_)),
                  RemainingToDeal(board_))

Inputs ==
    {in \in ActiveChoices \X MuckedChoices \X BoardChoices :
        EnumerationSize(in[1], in[2], in[3]) <= MaxBoards}

Init ==
    /\ \E in \in Inputs :
          /\ active_hands = in[1]
          /\ mucked_hands = in[2]
          /\ board = in[3]
    /\ cpu_count \in 1..MaxWorkers
    /\ pc = "seq_encode"
    /\ present_patterns = <<>> /\ mask_pattern = {} /\ future_patterns = <<>>
    /\ done_boards = 0 /\ sums = <<>> /\ ranks = <<>> /\ winners = <<>>
    /\ seq_outcome = "none" /\ seq_result = <<>>
    /\ args = <<>> /\ results = <<>> /\ finished = {}
    /\ par_outcome = "none" /\ par_result = <<>>
    /\ EvalIdle

inputs == <<active_hands, mucked_hands, board, cpu_count>>

seq_locals == <<done_boards, sums, ranks, winners>>

par_locals == <<args, results, finished>>

\* calculate_equity raises: the call is over, the parallel call follows
SeqRaise(exception) ==
    /\ seq_outcome' = exception
    /\ pc' = "par_encode"

\* lines 105-106
SeqEncode ==
    /\ pc = "seq_encode"
    /\ IF KeyErrorIn(<<ListArg(active_hands), ListArg(mucked_hands), StrArg(board)>>)
       THEN /\ SeqRaise("KeyError")
            /\ UNCHANGED <<present_patterns, mask_pattern>>
       ELSE /\ present_patterns' = PresentPatterns(active_hands, board)
            /\ mask_pattern' = MaskPattern(active_hands, mucked_hands, board)
            /\ pc' = "seq_enumerate"
            /\ UNCHANGED seq_outcome
    /\ UNCHANGED <<inputs, future_patterns, seq_locals, seq_result, par_locals,
                   par_outcome, par_result, eval_vars>>

\* line 107, and line 81 of the call of _func
SeqEnumerate ==
    /\ pc = "seq_enumerate"
    /\ IF RemainingToDeal(board) < 0
       THEN /\ SeqRaise("ValueError")
            /\ UNCHANGED <<future_patterns, sums>>
       ELSE /\ future_patterns' = _all_possibilities(mask_pattern, RemainingToDeal(board))
            /\ sums' = Zeros(Len(present_patterns))
            /\ pc' = "seq_score"
            /\ UNCHANGED seq_outcome
    /\ UNCHANGED <<inputs, present_patterns, mask_pattern, done_boards, ranks, winners,
                   seq_result, par_locals, par_outcome, par_result, eval_vars>>

\* lines 82-86: one turn of the loop of _func
SeqScore ==
    /\ pc = "seq_score"
    /\ done_boards < Len(future_patterns)
    /\ LET future == future_patterns[done_boards + 1]
       IN  IF SevenCards(present_patterns, future)
           THEN /\ ranks' = Ranks(present_patterns, future)
                /\ winners' = _judge_winners(ranks')
                /\ sums' = Credit(sums, winners')
                /\ done_boards' = done_boards + 1
                /\ UNCHANGED <<pc, seq_outcome>>
           ELSE \/ /\ SeqRaise("LookupError")
                   /\ UNCHANGED seq_locals
                \/ /\ ranks' \in JunkRanks(Len(present_patterns))
                   /\ winners' = _judge_winners(ranks')
                   /\ sums' = Credit(sums, winners')
                   /\ done_boards' = done_boards + 1
                   /\ UNCHANGED <<pc, seq_outcome>>
    /\ UNCHANGED <<inputs, present_patterns, mask_pattern, future_patterns,
                   seq_result, par_locals, par_outcome, par_result, eval_vars>>

\* lines 87 and 110
SeqReturn ==
    /\ pc = "seq_score"
    /\ done_boards = Len(future_patterns)
    /\ IF Len(sums) > 0 /\ Len(future_patterns) = 0
       THEN /\ SeqRaise("ZeroDivisionError")
            /\ UNCHANGED seq_result
       ELSE /\ seq_result' = Normalise(sums, Len(future_patterns))
            /\ seq_outcome' = "returned"
            /\ pc' = "par_encode"
    /\ UNCHANGED <<inputs, present_patterns, mask_pattern, future_patterns,
                   seq_locals, par_locals, par_outcome, par_result, eval_vars>>

\* calculate_equity_in_parallel raises
ParRaise(exception) ==
    /\ par_outcome' = exception
    /\ pc' = "done"

\* lines 126-127
ParEncode ==
    /\ pc = "par_encode"
    /\ IF KeyErrorIn(<<ListArg(active_hands), ListArg(mucked_hands), StrArg(board)>>)
       THEN /\ ParRaise("KeyError")
            /\ UNCHANGED <<present_patterns, mask_pattern>>
       ELSE /\ present_patterns' = PresentPatterns(active_hands, board)
            /\ mask_pattern' = MaskPattern(active_hands, mucked_hands, board)
            /\ pc' = "par_enumerate"
            /\ UNCHANGED par_outcome
    /\ UNCHANGED <<inputs, future_patterns, seq_locals, seq_outcome, seq_result,
                   par_locals, par_result, eval_vars>>

\* line 128
ParEnumerate ==
    /\ pc = "par_enumerate"
    /\ IF RemainingToDeal(board) < 0
       THEN /\ ParRaise("ValueError")
            /\ UNCHANGED future_patterns
       ELSE /\ future_patterns' = _all_possibilities(mask_pattern, RemainingToDeal(board))
            /\ pc' = "par_fork"
            /\ UNCHANGED par_outcome
    /\ UNCHANGED <<inputs, present_patterns, mask_pattern, seq_locals, seq_outcome,
                   seq_result, par_locals, par_result, eval_vars>>

\* lines 130-132: the pool and the arguments of its tasks
ParFork ==
    /\ pc = "par_fork"
    /\ args' = _chunk(future_patterns, cpu_count)
    /\ results' = [w \in 1..cpu_count |-> <<>>]
    /\ finished' = {}
    /\ pc' = "par_workers"
    /\ UNCHANGED <<inputs, present_patterns, mask_pattern, future_patterns, seq_locals,
                   seq_outcome, seq_result, par_outcome, par_result, eval_vars>>

\* line 133: the task w runs _func on its chunk in its own process; the
\* tasks return in any order and starmap keeps the order of args
WorkerRun(w) ==
    /\ pc = "par_workers"
    /\ w \in (1..Len(args)) \ finished
    /\ IF \A f \in 1..Len(args[w]) : SevenCards(present_patterns, args[w][f])
       THEN /\ results' = [results EXCEPT ![w] = _func(present_patterns, args[w])]
            /\ finished' = finished \cup {w}
            /\ UNCHANGED <<pc, par_outcome>>
       ELSE \/ /\ ParRaise("LookupError")
               /\ UNCHANGED <<results, finished>>
            \/ /\ \E s \in JunkSums(Len(present_patterns), Len(args[w])) :
                      results' = [results EXCEPT ![w] = s]
               /\ finished' = finished \cup {w}
               /\ UNCHANGED <<pc, par_outcome>>
    /\ UNCHANGED <<inputs, present_patterns, mask_pattern, future_patterns, seq_locals,
                   seq_outcome, seq_result, args, par_result, eval_vars>>

\* lines 133-137: every task has returned; reduce and normalise
ParReturn ==
    /\ pc = "par_workers"
    /\ finished = 1..Len(args)
    /\ IF Len(active_hands) > 0 /\ Len(future_patterns) = 0
       THEN /\ ParRaise("ZeroDivisionError")
            /\ UNCHANGED par_result
       ELSE /\ par_result' = Normalise(ReduceSums(results, Len(active_hands)),
                                       Len(future_patterns))
            /\ par_outcome' = "returned"
            /\ pc' = "done"
    /\ UNCHANGED <<inputs, present_patterns, mask_pattern, future_patterns, seq_locals,
                   seq_outcome, seq_result, par_locals, eval_vars>>

Next ==
    \/ SeqEncode
    \/ SeqEnumerate
    \/ SeqScore
    \/ SeqReturn
    \/ ParEncode
    \/ ParEnumerate
    \/ ParFork
    \/ \E w \in 1..MaxWorkers : WorkerRun(w)
    \/ ParReturn

Spec == Init /\ [][Next]_vars

\* ------------------------------------------------------------------------
\* evaluate on its own: every seven-card pattern over the first EvalCards
\* cards of EvalOrder, one turn of its loop at a time
\* ------------------------------------------------------------------------

EvalOrder ==
    <<S("A"), S("K"), S("Q"), S("J"), S("T"), S("9"), H("A"), D("A"), H("K"),
      H("2"), D("7"), C("4"), C("A"), C("7")>>

EvalPatterns ==
    {p \in SUBSET {_POS[EvalOrder[i]] : i \in 1..EvalCards} : Cardinality(p) = 7}

InitEval ==
    /\ EngineIdle
    /\ ev_pattern \in EvalPatterns
    /\ ev_i = 0
    /\ ev_acc = <<0, NoFlush>>
    /\ ev_res = 0

\* lines 35-38
EvalStep ==
    /\ ev_i < DeckSize
    /\ ev_acc' = EvalBody(ev_pattern, ev_i, ev_acc)
    /\ ev_i' = ev_i + SuitSize
    /\ UNCHANGED <<ev_pattern, ev_res, engine_vars>>

\* lines 39-40
EvalReturn ==
    /\ ev_i >= DeckSize
    /\ ev_res = 0
    /\ ev_res' = EvalResult(ev_acc)
    /\ UNCHANGED <<ev_pattern, ev_i, ev_acc, engine_vars>>

NextEval ==
    \/ EvalStep
    \/ EvalReturn

SpecEval == InitEval /\ [][NextEval]_vars

\* ------------------------------------------------------------------------
\* Properties
\* ------------------------------------------------------------------------

AllTokens == Concat(active_hands) \o Concat(mucked_hands) \o board

TokensKnown ==
    ~KeyErrorIn(<<ListArg(active_hands), ListArg(mucked_hands), StrArg(board)>>)

CardsOf(cards) == LET known == _POS IN {known[cards[c]] : c \in 1..Len(cards)}

\* no card appears twice across the holdings, the mucked hands and the board
NoCardTwice == Cardinality(CardsOf(AllTokens)) = Len(AllTokens)

TwoCardHoldings == \A h \in 1..Len(active_hands) : Len(active_hands[h]) = 2

\* the preconditions under which the engine meets the evaluator's contract
DealWellFormed ==
    /\ TokensKnown
    /\ Len(board) \in {0, 3, 4, 5}
    /\ TwoCardHoldings
    /\ NoCardTwice

\* calculate_equity got as far as a list of completed boards
SeqEnumerated ==
    \/ pc = "seq_score"
    \/ /\ pc \notin {"idle", "seq_encode", "seq_enumerate"}
       /\ seq_outcome \notin {"KeyError", "ValueError"}

\* calculate_equity_in_parallel has handed the chunks to the pool
Forked == pc = "par_workers" \/ (pc = "done" /\ Len(args) > 0)

\* every pattern built from the locals has seven bits
AllSevenCards ==
    \A f \in 1..Len(future_patterns) : SevenCards(present_patterns, future_patterns[f])

\* result[1] + ... + result[n] for fractions whose denominators divide den,
\* as a multiple of 1/den
SumOver(result, den) ==
    SumSeq([i \in 1..Len(result) |-> result[i][1] * (den \div result[i][2])])

\* C1: on the same arguments calculate_equity_in_parallel ends as
\* calculate_equity does, with the same equity vector, for every worker count
\* and every order in which the workers return: the element-wise sum of the
\* partial accumulators is the sequential accumulator.
ParallelAgrees ==
    (pc = "done" /\ AllSevenCards) =>
        /\ par_outcome = seq_outcome
        /\ seq_outcome = "returned" =>
              /\ ReduceSums(results, Len(active_hands)) = sums
              /\ par_result = seq_result

ParallelAgreesWitness ==
    /\ pc = "done"
    /\ seq_outcome = "returned" /\ par_outcome = "returned"
    /\ AllSevenCards
    /\ Len(active_hands) = 3
    /\ cpu_count = 3
    /\ Len(future_patterns) = 2
    /\ par_result = seq_result
    /\ \E i \in 1..3 : seq_result[i][1] # 0

\* C2: a call with at least two holdings that returns after a non-empty
\* enumeration returns components that sum to 1; every scored board adds
\* exactly one point in total to the accumulators.
EquitySumsToOne ==
    /\ (pc = "seq_score" /\ AllSevenCards /\ Len(active_hands) >= 1) =>
          SumSeq(sums) = Unit * done_boards
    /\ (seq_outcome = "returned" /\ AllSevenCards /\ Len(active_hands) >= 2
            /\ Len(future_patterns) > 0) =>
          /\ SumSeq(sums) = Unit * Len(future_patterns)
          /\ \A i \in 1..Len(seq_result) : seq_result[i][2] > 0
                 /\ (Unit * Len(future_patterns)) % seq_result[i][2] = 0
          /\ SumOver(seq_result, Unit * Len(future_patterns))
                 = Unit * Len(future_patterns)
    /\ (par_outcome = "returned" /\ AllSevenCards /\ Len(active_hands) >= 2
            /\ Len(future_patterns) > 0) =>
          SumOver(par_result, Unit * Len(future_patterns))
              = Unit * Len(future_patterns)

EquitySumsToOneWitness ==
    /\ seq_outcome = "returned" /\ par_outcome = "returned"
    /\ AllSevenCards
    /\ Len(active_hands) = 3
    /\ Len(future_patterns) > 2
    /\ \E i \in 1..3 : seq_result[i][2] \notin {1, 2}
    /\ SumOver(seq_result, Unit * Len(future_patterns)) = Unit * Len(future_patterns)

\* C3: _chunk yields exactly cpu_count contiguous slices
\* [i * total / P, (i + 1) * total / P) whose concatenation is the list of
\* completed boards.
ChunksPartition ==
    Forked =>
        LET total == Len(future_patterns)
        IN  /\ Len(args) = cpu_count
            /\ \A i \in 1..cpu_count :
                   args[i] = SubSeq(future_patterns,
                                    ((i - 1) * total) \div cpu_count + 1,
                                    (i * total) \div cpu_count)
            /\ Concat(args) = future_patterns
            /\ SumSeq([i \in 1..cpu_count |-> Len(args[i])]) = total

ChunksPartitionWitness ==
    /\ pc = "par_workers"
    /\ cpu_count = 3
    /\ Len(future_patterns) = 10
    /\ Len(args[1]) = 3 /\ Len(args[2]) = 3 /\ Len(args[3]) = 4

\* the cards of the active holdings, the mucked hands and the board
UsedCards == CardsOf(AllTokens)

\* C4: the mask is the union of the active holdings, the mucked hands and
\* the board, and no completed board, in the sequential call or in a chunk
\* of the parallel call, holds a card of the mask, so none holds a mucked card.
NoDeadCardDealt ==
    /\ pc \in {"seq_enumerate", "par_enumerate"} => mask_pattern = UsedCards
    /\ SeqEnumerated =>
          \A f \in 1..Len(future_patterns) :
              /\ future_patterns[f] \cap UsedCards = {}
              /\ future_patterns[f] \cap CardsOf(Concat(mucked_hands)) = {}
    /\ Forked =>
          \A w \in 1..Len(args) : \A f \in 1..Len(args[w]) :
              args[w][f] \cap CardsOf(Concat(mucked_hands)) = {}

NoDeadCardDealtWitness ==
    /\ pc = "seq_score"
    /\ Len(future_patterns) > 2
    /\ done_boards = Len(future_patterns)
    /\ Len(mucked_hands) > 0
    /\ RemainingToDeal(board) > 0

\* some boundary precondition of the call is violated: a malformed token, a
\* board that has not 0, 3, 4 or 5 cards, fewer than two active holdings, or
\* a card that appears twice
PreconditionViolated ==
    \/ ~TokensKnown
    \/ Len(board) \notin {0, 3, 4, 5}
    \/ Len(active_hands) < 2
    \/ ~NoCardTwice

\* C5: a call that violates a boundary precondition fails before any
\* enumeration: it never holds a list of completed boards and never returns.
FailsFast ==
    PreconditionViolated => (~SeqEnumerated /\ seq_outcome # "returned")

\* the ranks of the holdings on the board given as argument
ShowdownRanks ==
    [h \in 1..Len(active_hands) |-> evaluate(CardsOf(active_hands[h]) \cup CardsOf(board))]

ShowdownEquity(h) ==
    LET best == Min({ShowdownRanks[g] : g \in 1..Len(active_hands)})
        tied == {g \in 1..Len(active_hands) : ShowdownRanks[g] = best}
    IN  IF h \in tied THEN <<1, Cardinality(tied)>> ELSE <<0, 1>>

\* C6: with five cards on the board there is exactly one completed board,
\* the board itself, and both calls return 1/k for each of the k holdings
\* tied for the strongest rank and 0 for the others.
FullBoardShowdown ==
    (pc = "done" /\ TokensKnown /\ NoCardTwice /\ TwoCardHoldings /\ Len(board) = 5) =>
        /\ Len(future_patterns) = 1
        /\ future_patterns[1] = {}
        /\ seq_outcome = "returned" /\ par_outcome = "returned"
        /\ Len(seq_result) = Len(active_hands) /\ Len(par_result) = Len(active_hands)
        /\ \A h \in 1..Len(active_hands) :
               /\ seq_result[h] = ShowdownEquity(h)
               /\ par_result[h] = ShowdownEquity(h)

FullBoardShowdownWitness ==
    /\ pc = "done"
    /\ TokensKnown /\ NoCardTwice /\ Len(board) = 5
    /\ Len(active_hands) = 3
    /\ seq_result = << <<0, 1>>, <<1, 1>>, <<0, 1>> >>
    /\ par_result = seq_result

\* the 13-bit slices of the four suits
SuitSlices(pattern) == [s \in 0..3 |-> Slice(pattern, s * SuitSize)]

\* C7: for a pattern of exactly seven bits evaluate returns a rank in
\* 1..7462, the smaller of OctetTable of the summed octet contributions of
\* the four suit slices and of the smallest flush value (9999 if none).
EvaluateInRange ==
    ev_res # 0 =>
        LET slices == SuitSlices(ev_pattern)
            octet  == SuitTable(slices[0])[1] + SuitTable(slices[1])[1]
                      + SuitTable(slices[2])[1] + SuitTable(slices[3])[1]
            flush  == Min({NoFlush} \cup {SuitTable(slices[s])[2] : s \in 0..3})
        IN  /\ Cardinality(ev_pattern) = 7
            /\ ev_res \in 1..WorstRank
            /\ ev_res = Min({OctetTable(octet), flush})

EvaluateInRangeWitness ==
    /\ ev_res # 0
    /\ Cardinality(ev_pattern) = 7
    /\ ev_acc[2] < NoFlush
    /\ ev_acc[2] > 10
    /\ ev_res = ev_acc[2]
    /\ SuitTable(Slice(ev_pattern, 3 * SuitSize))[2] = NoFlush

\* C8: _all_possibilities returns every r-element subset of the unused
\* cards exactly once: C(52 - u, r) pairwise distinct patterns of r bits
\* each, none of them touching the mask.
EnumerationExhaustive ==
    (pc \in {"seq_score", "par_fork"}) =>
        LET r == RemainingToDeal(board)
            u == Cardinality(mask_pattern)
            boards == {future_patterns[f] : f \in 1..Len(future_patterns)}
        IN  /\ Len(future_patterns) = Binomial(DeckSize - u, r)
            /\ Cardinality(boards) = Len(future_patterns)
            /\ \A b \in boards :
                   /\ Cardinality(b) = r
                   /\ b \subseteq (0..(DeckSize - 1)) \ mask_pattern
            /\ (done_boards = 0 /\ pc = "seq_score") =>
                   boards = {b \in SUBSET ((0..(DeckSize - 1)) \ mask_pattern) :
                                 Cardinality(b) = r}

EnumerationExhaustiveWitness ==
    /\ pc = "seq_score"
    /\ done_boards = 0
    /\ Len(board) = 0
    /\ (DeckSize - 1) \notin mask_pattern
    /\ Len(future_patterns) = 6

\* C9: for ranks in 1..7462 the winners of a board are exactly the holdings
\* whose rank is the minimum rank, a non-empty set, and _func adds
\* 1/|winners| to the accumulator of each winner and nothing to the others.
WinnersShareOnePoint ==
    [][(/\ pc = "seq_score"
        /\ done_boards' = done_boards + 1
        /\ \A i \in 1..Len(ranks') : ranks'[i] \in 1..WorstRank)
       => LET n == Len(ranks')
              W == IF n = 0 THEN {}
                   ELSE {i \in 1..n : ranks'[i] = Min({ranks'[j] : j \in 1..n})}
          IN  /\ {winners'[j] : j \in 1..Len(winners')} = W
              /\ Len(winners') = Cardinality(W)
              /\ n > 0 => W # {}
              /\ Len(sums') = n
              /\ \A i \in 1..n :
                     sums'[i] = sums[i] + (IF i \in W THEN Unit \div Cardinality(W) ELSE 0)
              /\ W # {} => Unit % Cardinality(W) = 0]_vars

WinnersShareOnePointWitness ==
    /\ pc = "seq_score"
    /\ done_boards >= 1
    /\ SevenCards(present_patterns, future_patterns[done_boards])
    /\ Len(ranks) = 3
    /\ ranks[1] = ranks[2] /\ ranks[2] < ranks[3]
    /\ winners = <<1, 2>>
    /\ sums[1] % Unit # 0

\* C10: under the preconditions every pattern the engine gives to evaluate,
\* in the sequential call and in every worker, has exactly seven bits.
OnlySevenCardPatterns ==
    DealWellFormed =>
        /\ pc = "seq_score" => AllSevenCards
        /\ pc = "par_workers" =>
              \A w \in 1..Len(args) : \A f \in 1..Len(args[w]) :
                  SevenCards(present_patterns, args[w][f])

OnlySevenCardPatternsWitness ==
    /\ DealWellFormed
    /\ pc = "par_workers"
    /\ Len(board) = 3
    /\ Len(future_patterns) > 2
    /\ finished # {}
    /\ \E w \in 1..Len(args) : Len(args[w]) > 1

====
